---- MODULE Spec2Model ----
(***************************************************************************)
(* SnapVerse API: accounts with a privacy flag, the follow graph with      *)
(* pending / approved edges, posts with a privacy level, the read          *)
(* operations that decide which posts a viewer gets and in which order,    *)
(* the write operations on posts, reactions and comments with their        *)
(* permission classes, and the subscription window of an account.          *)
(*                                                                         *)
(* The database tables are the variables; every HTTP handler is one        *)
(* action that reads the tables, writes them, and leaves its response in   *)
(* resp.                                                                   *)
(***************************************************************************)
EXTENDS Integers, FiniteSets, Sequences, TLC

(* ---- bounds ---- *)
MaxFollows == 2        \* Follow rows ever created (primary keys 1..MaxFollows)
MaxPosts == 1          \* Post rows created in the specifications about one post
MaxComments == 2       \* Comment rows created in the specifications about one post
MaxPostRows == 2       \* Post rows ever created (SpecThreads: comments across posts)
MaxCommentRows == 3    \* Comment rows ever created (SpecThreads: replies to replies)
MaxReactions == 2      \* Reaction rows ever created
MaxNow == 32           \* last day of the clock (day 1 + ProDays is reached and passed)

(* ---- universe ---- *)
Users == {1, 2}                       \* registered, active accounts (User.id)
Anonymous == 0                        \* request.user of an unauthenticated request
NoSuchUser == 9                       \* a user id that matches no row
Privacy == {"public", "private", "followers"}     \* Post.PRIVACY_CHOICES
ReactionChoices == {"like", "love"}   \* two of Reaction.REACTION_CHOICES
Texts == {"a", "b"}                   \* comment bodies
SAFE_METHODS == {"GET", "HEAD", "OPTIONS"}
Slots == {1, 2}                       \* requests that can be in progress at once
Admins == {2}                         \* accounts the administrator gives a role to
Subscribers == {1}                    \* accounts that pay for a subscription
ProDays == 30                         \* timedelta(days=30): days bought by one payment
NoTime == 0                           \* a DateTimeField that is None

VARIABLES
    is_private,        \* User.is_private, per account
    follows,           \* Follow rows: [id, follower, following, is_approved]
    next_follow_id,    \* next primary key of the Follow table
    posts,             \* Post rows: [id, user, privacy]
    next_post_id,      \* next primary key of the Post table
    reactions,         \* Reaction rows: [id, user, post, reaction]
    next_reaction_id,  \* next primary key of the Reaction table
    comments,          \* Comment rows: [id, user, post, text, is_edited, parent_comment]
    next_comment_id,   \* next primary key of the Comment table
    is_staff,          \* User.is_staff, per account
    is_superuser,      \* User.is_superuser, per account
    inflight,          \* requests whose handler has started and not yet returned
    is_pro,            \* User.is_pro, per account
    pro_subscription_start,   \* User.pro_subscription_start, per account (a day or NoTime)
    pro_subscription_end,     \* User.pro_subscription_end, per account (a day or NoTime)
    now,               \* timezone.now(), in days
    resp               \* the response of the last request

vars == <<is_private, follows, next_follow_id, posts, next_post_id,
          reactions, next_reaction_id, comments, next_comment_id,
          is_staff, is_superuser, inflight,
          is_pro, pro_subscription_start, pro_subscription_end, now, resp>>

graphVars == <<is_private, follows, next_follow_id>>
postVars == <<posts, next_post_id>>
contentVars == <<reactions, next_reaction_id, comments, next_comment_id>>
roleVars == <<is_staff, is_superuser>>
subVars == <<is_pro, pro_subscription_start, pro_subscription_end, now>>
auxVars == <<roleVars, inflight, subVars>>

(* ---- responses ---- *)
NoResp ==
    [op |-> "none", user |-> 0, target |-> 0, status |-> 0,
     posts |-> {}, items |-> {}, created |-> FALSE, follow_id |-> 0,
     is_approved |-> FALSE, is_private |-> FALSE, action |-> "none",
     method |-> "none", api_allowed |-> FALSE, posts_allowed |-> FALSE,
     kind |-> "none", parent |-> 0, is_pro |-> FALSE,
     ordering |-> "none", order |-> <<>>]

Response(op, user, target, status) ==
    [NoResp EXCEPT !.op = op, !.user = user, !.target = target, !.status = status]

\* A request slot with no request in it.
IdleRequest ==
    [pc |-> "idle", op |-> "none", user |-> 0, target |-> 0, is_private |-> FALSE,
     status |-> 0, created |-> FALSE, follow_id |-> 0, raced |-> FALSE,
     kind |-> "none", row_id |-> 0, peer |-> 0, action |-> "none"]

(* ---- Follow model ---- *)

\* Follow.save without the creation branch: the row keeps the flag it was built with.
FollowSave_KeepDefault(f, creating) == f

\* Follow.save: on creation (no pk yet) is_approved is set from the followee's
\* privacy flag; on a later save the row is written as it is.
FollowSave(f, creating) ==
    IF creating
    THEN IF is_private[f.following]
         THEN [f EXCEPT !.is_approved = FALSE]
         ELSE [f EXCEPT !.is_approved = TRUE]
    ELSE f

\* Follow.approve: set the flag, then save (an update: the row has a pk).
FollowApprove(f) == FollowSave([f EXCEPT !.is_approved = TRUE], FALSE)

\* A lookup that matches the pair in either direction.
FollowRows_EitherDirection(v, a) ==
    {f \in follows : \/ f.follower = v /\ f.following = a
                     \/ f.follower = a /\ f.following = v}

\* Follow.objects.filter(follower=v, following=a): at most one row (unique_together).
FollowRows(v, a) == {f \in follows : f.follower = v /\ f.following = a}

Init ==
    /\ is_private = [u \in Users |-> FALSE]
    /\ follows = {}
    /\ next_follow_id = 1
    /\ posts = {}
    /\ next_post_id = 1
    /\ reactions = {}
    /\ next_reaction_id = 1
    /\ comments = {}
    /\ next_comment_id = 1
    /\ is_staff = [u \in Users |-> FALSE]
    /\ is_superuser = [u \in Users |-> FALSE]
    /\ inflight = [r \in Slots |-> IdleRequest]
    /\ is_pro = [u \in Users |-> FALSE]
    /\ pro_subscription_start = [u \in Users |-> NoTime]
    /\ pro_subscription_end = [u \in Users |-> NoTime]
    /\ now = 1
    /\ resp = NoResp

(* ---- account settings ---- *)

\* A privacy change that derives the flag of the edges to the account again:
\* pending when the account is now private, approved when it is now public.
SetPrivacy_Resync(u, b) ==
    /\ is_private' = [is_private EXCEPT ![u] = b]
    /\ follows' = {IF f.following = u THEN [f EXCEPT !.is_approved = ~b] ELSE f : f \in follows}
    /\ resp' = [Response("set_privacy", u, u, 200) EXCEPT !.is_private = b]
    /\ UNCHANGED <<next_follow_id, postVars, contentVars, auxVars>>

\* PUT auth/users/me with UserSerializer: is_private is a writable field.
SetPrivacy(u, b) ==
    /\ is_private' = [is_private EXCEPT ![u] = b]
    /\ resp' = [Response("set_privacy", u, u, 200) EXCEPT !.is_private = b]
    /\ UNCHANGED <<follows, next_follow_id, postVars, contentVars, auxVars>>

(* ---- FollowViewSet ---- *)

\* A get_or_create that runs the creation branch of Follow.save on the row it
\* found as well, seeding its flag again from the followee's privacy.
GetOrCreateFollow_Reseed(v, a) ==
    IF FollowRows(v, a) # {}
    THEN [follow |-> FollowSave(CHOOSE f \in FollowRows(v, a) : TRUE, TRUE), created |-> FALSE]
    ELSE [follow |-> FollowSave([id |-> next_follow_id, follower |-> v,
                                 following |-> a, is_approved |-> TRUE], TRUE),
          created |-> TRUE]

\* Follow.objects.get_or_create(follower=v, following=a), with Follow.save on create.
\* The new row starts from the field default is_approved=True.
GetOrCreateFollow(v, a) ==
    IF FollowRows(v, a) # {}
    THEN [follow |-> CHOOSE f \in FollowRows(v, a) : TRUE, created |-> FALSE]
    ELSE [follow |-> FollowSave([id |-> next_follow_id, follower |-> v,
                                 following |-> a, is_approved |-> TRUE], TRUE),
          created |-> TRUE]

\* follow_user without the comparison of the target with request.user.
FollowUser_NoSelfCheck(v, a) ==
    IF a \notin Users
    THEN /\ resp' = Response("follow_user", v, a, 404)
         /\ UNCHANGED <<graphVars, postVars, contentVars, auxVars>>
    ELSE LET r == GetOrCreateFollow(v, a) IN
         /\ r.created => next_follow_id <= MaxFollows
         /\ follows' = follows \cup {r.follow}
         /\ next_follow_id' = IF r.created THEN next_follow_id + 1 ELSE next_follow_id
         /\ resp' = [Response("follow_user", v, a, IF r.created THEN 201 ELSE 200)
                        EXCEPT !.created = r.created,
                               !.follow_id = r.follow.id,
                               !.is_approved = r.follow.is_approved,
                               !.is_private = is_private[a]]
         /\ UNCHANGED <<is_private, postVars, contentVars, auxVars>>

\* POST follows/follow_user {user_id: a}
FollowUser(v, a) ==
    IF a \notin Users
    THEN /\ resp' = Response("follow_user", v, a, 404)
         /\ UNCHANGED <<graphVars, postVars, contentVars, auxVars>>
    ELSE IF a = v
    THEN /\ resp' = Response("follow_user", v, a, 400)
         /\ UNCHANGED <<graphVars, postVars, contentVars, auxVars>>
    ELSE LET r == GetOrCreateFollow(v, a) IN
         /\ r.created => next_follow_id <= MaxFollows
         /\ follows' = follows \cup {r.follow}
         /\ next_follow_id' = IF r.created THEN next_follow_id + 1 ELSE next_follow_id
         /\ resp' = [Response("follow_user", v, a, IF r.created THEN 201 ELSE 200)
                        EXCEPT !.created = r.created,
                               !.follow_id = r.follow.id,
                               !.is_approved = r.follow.is_approved,
                               !.is_private = is_private[a]]
         /\ UNCHANGED <<is_private, postVars, contentVars, auxVars>>

\* POST follows/unfollow_user {user_id: a}
UnfollowUser(v, a) ==
    IF a \notin Users
    THEN /\ resp' = Response("unfollow_user", v, a, 404)
         /\ UNCHANGED <<graphVars, postVars, contentVars, auxVars>>
    ELSE IF FollowRows(v, a) = {}
    THEN /\ resp' = [Response("unfollow_user", v, a, 404) EXCEPT !.action = "not_following"]
         /\ UNCHANGED <<graphVars, postVars, contentVars, auxVars>>
    ELSE /\ follows' = follows \ FollowRows(v, a)
         /\ resp' = Response("unfollow_user", v, a, 200)
         /\ UNCHANGED <<is_private, next_follow_id, postVars, contentVars, auxVars>>

\* The lookup of pending_requests without its following=request.user condition.
PendingRequestRows_AnyActor(v, id) ==
    {f \in follows : f.id = id /\ f.is_approved = FALSE}

\* The lookup of pending_requests without its is_approved=False condition.
PendingRequestRows_AnyState(v, id) ==
    {f \in follows : f.id = id /\ f.following = v}

\* Follow.objects.get(pk=id, following=request.user, is_approved=False)
PendingRequestRows(v, id) ==
    {f \in follows : f.id = id /\ f.following = v /\ f.is_approved = FALSE}

\* A reject that keeps the row in the table.
PendingRequestApply_KeepRejected(follow, act) ==
    IF act = "Approve"
    THEN (follows \ {follow}) \cup {FollowApprove(follow)}
    ELSE follows

\* The Follow table after the action of pending_requests on the row found:
\* follow.approve() for "Approve", follow.delete() for "Reject".
PendingRequestApply(follow, act) ==
    IF act = "Approve"
    THEN (follows \ {follow}) \cup {FollowApprove(follow)}
    ELSE follows \ {follow}

\* POST follows/pending_requests {id, action}: the row is looked up by
\* pk, following=request.user and is_approved=False in one query; when no row
\* matches, whatever the reason, the answer is 404 "Follow request not found".
HandlePendingRequest(v, id, act) ==
    LET found == PendingRequestRows(v, id) IN
    IF found = {}
    THEN /\ resp' = [Response("pending_requests", v, id, 404) EXCEPT !.action = act]
         /\ UNCHANGED <<graphVars, postVars, contentVars, auxVars>>
    ELSE LET follow == CHOOSE f \in found : TRUE IN
         /\ follows' = PendingRequestApply(follow, act)
         /\ resp' = [Response("pending_requests", v, id, 200)
                        EXCEPT !.action = act, !.follow_id = follow.id]
         /\ UNCHANGED <<is_private, next_follow_id, postVars, contentVars, auxVars>>

\* FollowViewSet.get_queryset
FollowGetQueryset(action, user) ==
    IF action = "following"
    THEN {f \in follows : f.follower = user /\ f.is_approved = TRUE}
    ELSE IF action = "followers"
    THEN {f \in follows : f.following = user /\ f.is_approved = TRUE}
    ELSE IF action = "pending_requests"
    THEN {f \in follows : f.following = user /\ f.is_approved = FALSE}
    ELSE {}

\* FollowSerializer(many=True): each row as <<follower, following>>
FollowPairs(rows) == {<<f.follower, f.following>> : f \in rows}

\* GET follows/following
Following(v) ==
    /\ resp' = [Response("following", v, 0, 200)
                   EXCEPT !.items = FollowPairs(FollowGetQueryset("following", v))]
    /\ UNCHANGED <<graphVars, postVars, contentVars, auxVars>>

\* GET follows/followers
Followers(v) ==
    /\ resp' = [Response("followers", v, 0, 200)
                   EXCEPT !.items = FollowPairs(FollowGetQueryset("followers", v))]
    /\ UNCHANGED <<graphVars, postVars, contentVars, auxVars>>

\* GET follows/pending_requests
PendingRequests(v) ==
    /\ resp' = [Response("pending_list", v, 0, 200)
                   EXCEPT !.items = FollowPairs(FollowGetQueryset("pending_requests", v))]
    /\ UNCHANGED <<graphVars, postVars, contentVars, auxVars>>

(* ---- follow_user served concurrently: the steps of get_or_create ---- *)

\* A Follow table without the unique constraint on (follower, following).
UniqueViolation_None(v, a) == FALSE

\* unique_together = ("follower", "following"): the database refuses the INSERT
\* of a second row for the pair with an IntegrityError.
UniqueViolation(v, a) == FollowRows(v, a) # {}

\* The request in slot r has returned.
Finish(r, status, created, follow_id) ==
    [inflight EXCEPT ![r].pc = "done", ![r].status = status,
                     ![r].created = created, ![r].follow_id = follow_id]

\* follow_user up to and including the first SELECT of get_or_create: the
\* target is loaded (with its is_private as of now), the self check is made,
\* and an existing row ends the request with created = False.
FollowBegin(r, v, a) ==
    /\ inflight[r].pc = "idle"
    /\ LET started == [inflight EXCEPT ![r].user = v, ![r].target = a] IN
       IF a \notin Users
       THEN inflight' = [started EXCEPT ![r].pc = "done", ![r].status = 404]
       ELSE IF a = v
       THEN inflight' = [started EXCEPT ![r].pc = "done", ![r].status = 400]
       ELSE IF FollowRows(v, a) # {}
       THEN inflight' = [started EXCEPT ![r].pc = "done", ![r].status = 200,
                                        ![r].follow_id = (CHOOSE f \in FollowRows(v, a) : TRUE).id]
       ELSE inflight' = [started EXCEPT ![r].pc = "create", ![r].is_private = is_private[a]]
    /\ UNCHANGED <<graphVars, postVars, contentVars, roleVars, subVars, resp>>

\* The INSERT of get_or_create, with Follow.save on the new row: it is seeded
\* from the is_private of the target as loaded by the request.  A unique
\* violation is caught inside get_or_create, which then selects again.
FollowInsert(r) ==
    /\ inflight[r].pc = "create"
    /\ IF UniqueViolation(inflight[r].user, inflight[r].target)
       THEN /\ inflight' = [inflight EXCEPT ![r].pc = "retry_get", ![r].raced = TRUE]
            /\ UNCHANGED <<follows, next_follow_id>>
       ELSE /\ next_follow_id <= MaxFollows
            /\ follows' = follows \cup {[id |-> next_follow_id,
                                          follower |-> inflight[r].user,
                                          following |-> inflight[r].target,
                                          is_approved |-> ~inflight[r].is_private]}
            /\ next_follow_id' = next_follow_id + 1
            /\ inflight' = Finish(r, 201, TRUE, next_follow_id)
    /\ UNCHANGED <<is_private, postVars, contentVars, roleVars, subVars, resp>>

\* The second SELECT of get_or_create, after the IntegrityError: the row of the
\* other request is returned with created = False; were it gone again, the
\* IntegrityError would be raised to the caller (500).
FollowRetryGet(r) ==
    /\ inflight[r].pc = "retry_get"
    /\ LET rows == FollowRows(inflight[r].user, inflight[r].target) IN
       IF rows # {}
       THEN inflight' = Finish(r, 200, FALSE, (CHOOSE f \in rows : TRUE).id)
       ELSE inflight' = Finish(r, 500, FALSE, 0)
    /\ UNCHANGED <<graphVars, postVars, contentVars, roleVars, subVars, resp>>

\* pending_requests (POST, "Approve") up to and including Follow.objects.get:
\* no matching row ends the request with 404; a row found is held by the
\* request as loaded (its pk and its follower).
ApproveBegin(r, v, id) ==
    /\ inflight[r].pc = "idle"
    /\ LET started == [inflight EXCEPT ![r].op = "pending_requests", ![r].user = v,
                                       ![r].target = id, ![r].action = "Approve"]
           found == PendingRequestRows(v, id) IN
       IF found = {}
       THEN inflight' = [started EXCEPT ![r].pc = "done", ![r].status = 404]
       ELSE inflight' = [started EXCEPT ![r].pc = "approve", ![r].row_id = id,
                                        ![r].peer = (CHOOSE f \in found : TRUE).follower]
    /\ UNCHANGED <<graphVars, postVars, contentVars, roleVars, subVars, resp>>

\* follow.approve() of the row held by the request: is_approved = True, then
\* Model.save() of an instance with a pk. The UPDATE by pk writes the row when
\* it is still there; when it matches no row, save() goes on to INSERT the
\* instance under its pk, which the unique constraint refuses (IntegrityError,
\* 500) only if the pair has a row again.
ApproveSave(r) ==
    /\ inflight[r].pc = "approve"
    /\ LET held == FollowApprove([id |-> inflight[r].row_id,
                                  follower |-> inflight[r].peer,
                                  following |-> inflight[r].user,
                                  is_approved |-> FALSE]) IN
       IF \E f \in follows : f.id = held.id
       THEN /\ follows' = {f \in follows : f.id # held.id} \cup {held}
            /\ inflight' = Finish(r, 200, FALSE, held.id)
       ELSE IF UniqueViolation(held.follower, held.following)
       THEN /\ follows' = follows
            /\ inflight' = Finish(r, 500, FALSE, 0)
       ELSE /\ follows' = follows \cup {held}
            /\ inflight' = [Finish(r, 200, FALSE, held.id) EXCEPT ![r].raced = TRUE]
    /\ UNCHANGED <<is_private, next_follow_id, postVars, contentVars, roleVars, subVars, resp>>

(* ---- permission classes (api/permissions.py, posts/permissions.py) ---- *)

\* user.following.filter(following=owner, is_approved=True).exists()
ApprovedFollowExists(user, owner) ==
    \E f \in follows : f.follower = user /\ f.following = owner /\ f.is_approved = TRUE

\* api.permissions.IsOwnerOrReadOnly.has_object_permission
IsOwnerOrReadOnly(method, user, obj) ==
    IF method \in SAFE_METHODS THEN TRUE ELSE obj.user = user

\* IsPostOwnerOrReadOnly whose followers branch accepts any edge, approved or not.
ApiIsPostOwnerOrReadOnly_AnyEdge(method, user, obj) ==
    IF method \notin SAFE_METHODS THEN obj.user = user
    ELSE IF obj.privacy = "public" THEN TRUE
    ELSE IF obj.privacy = "private" THEN obj.user = user
    ELSE IF obj.privacy = "followers"
         THEN IF obj.user = user THEN TRUE
              ELSE \E f \in follows : f.follower = user /\ f.following = obj.user
    ELSE FALSE

\* api.permissions.IsPostOwnerOrReadOnly.has_object_permission.  The method has
\* no final return: for a privacy outside the three choices it returns None,
\* which the framework treats as a denial.
ApiIsPostOwnerOrReadOnly(method, user, obj) ==
    IF method \notin SAFE_METHODS THEN obj.user = user
    ELSE IF obj.privacy = "public" THEN TRUE
    ELSE IF obj.privacy = "private" THEN obj.user = user
    ELSE IF obj.privacy = "followers"
         THEN IF obj.user = user THEN TRUE
              ELSE ApprovedFollowExists(user, obj.user)
    ELSE FALSE

\* posts.permissions.IsPostOwnerOrReadOnly.has_object_permission
PostsIsPostOwnerOrReadOnly(method, user, obj) ==
    IF method \notin SAFE_METHODS THEN obj.user = user
    ELSE IF obj.privacy = "public" THEN TRUE
    ELSE IF obj.privacy = "private" THEN obj.user = user
    ELSE IF obj.privacy = "followers"
         THEN IF obj.user = user THEN TRUE
              ELSE ApprovedFollowExists(user, obj.user)
    ELSE FALSE

\* api.permissions.IsCommentOwnerOrReadOnly.has_object_permission
IsCommentOwnerOrReadOnly(method, user, obj) ==
    IF method \notin SAFE_METHODS THEN obj.user = user ELSE TRUE

\* IsCommentOwnerPostOwnerOrAdmin whose DELETE branch leaves the post owner out.
IsCommentOwnerPostOwnerOrAdmin_NoPostOwner(method, user, obj) ==
    IF method \in SAFE_METHODS THEN TRUE
    ELSE IF method = "DELETE"
    THEN \/ obj.user = user
         \/ is_staff[user]
         \/ is_superuser[user]
    ELSE obj.user = user

\* api.permissions.IsCommentOwnerPostOwnerOrAdmin.has_object_permission;
\* obj.post.user is the owner of the post row the comment points to.
IsCommentOwnerPostOwnerOrAdmin(method, user, obj) ==
    IF method \in SAFE_METHODS THEN TRUE
    ELSE IF method = "DELETE"
    THEN \/ obj.user = user
         \/ (CHOOSE p \in posts : p.id = obj.post).user = user
         \/ is_staff[user]
         \/ is_superuser[user]
    ELSE obj.user = user

\* has_object_permission of a permission class, by class name.  IsAuthenticated
\* inherits BasePermission.has_object_permission, which returns True.
HasObjectPermission(perm, method, user, obj) ==
    IF perm = "IsOwnerOrReadOnly" THEN IsOwnerOrReadOnly(method, user, obj)
    ELSE IF perm = "IsCommentOwnerOrReadOnly" THEN IsCommentOwnerOrReadOnly(method, user, obj)
    ELSE IF perm = "IsCommentOwnerPostOwnerOrAdmin"
         THEN IsCommentOwnerPostOwnerOrAdmin(method, user, obj)
    ELSE TRUE

(* ---- PostViewSet ---- *)

\* A get_permissions that gives the write actions IsAuthenticated alone.
PostGetPermissions_AuthenticatedOnly(action) == {"IsAuthenticated"}

\* PostViewSet.get_permissions
PostGetPermissions(action) ==
    IF action \in {"update", "partial_update", "destroy"}
    THEN {"IsAuthenticated", "IsOwnerOrReadOnly"}
    ELSE {"IsAuthenticated"}

\* PostViewSet.get_queryset.  The followers branch joins the Follow table on
\* follower=user only: the join has no is_approved condition.
PostGetQueryset(action, user) ==
    IF action = "list"
    THEN {p \in posts :
            \/ p.privacy = "public"
            \/ p.user = user
            \/ /\ p.privacy = "followers"
               /\ \E f \in follows : f.following = p.user /\ f.follower = user}
    ELSE posts

\* GenericAPIView.get_object as PostViewSet uses it: look the pk up in
\* get_queryset(), then check the object permissions of get_permissions().
\* Result: [status, obj]; obj is meaningful when status = 200.
PostGetObject(action, method, user, pk) ==
    LET rows == {p \in PostGetQueryset(action, user) : p.id = pk} IN
    IF rows = {} THEN [status |-> 404, obj |-> [id |-> 0, user |-> 0, privacy |-> "public"]]
    ELSE LET obj == CHOOSE p \in rows : TRUE IN
         IF \A perm \in PostGetPermissions(action) : HasObjectPermission(perm, method, user, obj)
         THEN [status |-> 200, obj |-> obj]
         ELSE [status |-> 403, obj |-> obj]

PostIds(rows) == {p.id : p \in rows}

\* POST posts/ (PostCreateSerializer, perform_create): the owner is request.user.
CreatePost(u, privacy) ==
    /\ next_post_id <= MaxPostRows
    /\ posts' = posts \cup {[id |-> next_post_id, user |-> u, privacy |-> privacy]}
    /\ next_post_id' = next_post_id + 1
    /\ resp' = Response("create_post", u, next_post_id, 201)
    /\ UNCHANGED <<graphVars, contentVars, auxVars>>

\* PostUpdateSerializer.is_valid: privacy must be one of PRIVACY_CHOICES.
PostUpdateValid(privacy) == privacy \in Privacy

\* PUT posts/{pk}/ {privacy}: get_object (404, then 403 from IsOwnerOrReadOnly),
\* then the serializer (400), then perform_update.
UpdatePost(v, pk, privacy) ==
    LET g == PostGetObject("update", "PUT", v, pk) IN
    IF g.status # 200
    THEN /\ resp' = Response("update_post", v, pk, g.status)
         /\ UNCHANGED <<graphVars, postVars, contentVars, auxVars>>
    ELSE IF ~PostUpdateValid(privacy)
    THEN /\ resp' = Response("update_post", v, pk, 400)
         /\ UNCHANGED <<graphVars, postVars, contentVars, auxVars>>
    ELSE /\ posts' = (posts \ {g.obj}) \cup {[g.obj EXCEPT !.privacy = privacy]}
         /\ resp' = Response("update_post", v, pk, 200)
         /\ UNCHANGED <<graphVars, next_post_id, contentVars, auxVars>>

\* DELETE posts/{pk}/: get_object, then perform_destroy.  The reactions and the
\* comments of the post go with it (on_delete=CASCADE).
DestroyPost(v, pk) ==
    LET g == PostGetObject("destroy", "DELETE", v, pk) IN
    IF g.status # 200
    THEN /\ resp' = Response("destroy_post", v, pk, g.status)
         /\ UNCHANGED <<graphVars, postVars, contentVars, auxVars>>
    ELSE /\ posts' = posts \ {g.obj}
         /\ reactions' = {r \in reactions : r.post # pk}
         /\ comments' = {c \in comments : c.post # pk}
         /\ resp' = Response("destroy_post", v, pk, 204)
         /\ UNCHANGED <<graphVars, next_post_id, next_reaction_id, next_comment_id, auxVars>>

\* Row ids from the oldest row to the newest. created_at is auto_now_add and
\* primary keys are handed out in the order of insertion, so the order of
\* created_at is the order of the ids.
RECURSIVE Ascending(_)
Ascending(ids) ==
    IF ids = {} THEN <<>>
    ELSE LET first == CHOOSE x \in ids : \A y \in ids : x <= y IN
         <<first>> \o Ascending(ids \ {first})

\* Row ids from the newest row to the oldest.
RECURSIVE Descending(_)
Descending(ids) ==
    IF ids = {} THEN <<>>
    ELSE LET first == CHOOSE x \in ids : \A y \in ids : x >= y IN
         <<first>> \o Descending(ids \ {first})

\* QuerySet.order_by("created_at") / order_by("-created_at"), as the ids in order.
OrderBy(ids, field) ==
    IF field = "created_at" THEN Ascending(ids) ELSE Descending(ids)

\* An ordering filter that never reads the query parameter.
GetOrdering_IgnoreParam(param) == "-created_at"

\* OrderingFilter.get_ordering with ordering_fields and ordering of PostViewSet: a
\* valid ?ordering= parameter is taken, anything else falls back to the view's
\* ordering, "-created_at". (updated_at, the other valid field, is not a
\* column of the modelled rows.)
GetOrdering(param) ==
    IF param \in {"created_at", "-created_at"} THEN param ELSE "-created_at"

\* GET posts/?ordering=param
ListPostsOrdered(v, param) ==
    /\ resp' = [Response("list", v, 0, 200)
                   EXCEPT !.posts = PostIds(PostGetQueryset("list", v)),
                          !.ordering = param,
                          !.order = OrderBy(PostIds(PostGetQueryset("list", v)),
                                            GetOrdering(param))]
    /\ UNCHANGED <<graphVars, postVars, contentVars, auxVars>>

\* GET posts/
ListPosts(v) == ListPostsOrdered(v, "none")

\* GET posts/my_posts/
MyPosts(v) ==
    /\ resp' = [Response("my_posts", v, 0, 200)
                   EXCEPT !.posts = PostIds({p \in posts : p.user = v}),
                          !.order = OrderBy(PostIds({p \in posts : p.user = v}),
                                            "-created_at")]
    /\ UNCHANGED <<graphVars, postVars, contentVars, auxVars>>

\* GET posts/{pk}/
RetrievePost(v, pk) ==
    LET r == PostGetObject("retrieve", "GET", v, pk) IN
    /\ resp' = [Response("retrieve", v, pk, r.status)
                   EXCEPT !.posts = IF r.status = 200 THEN {r.obj.id} ELSE {}]
    /\ UNCHANGED <<graphVars, postVars, contentVars, auxVars>>

\* GET posts/feed/: the follow branch joins on follower=request.user only, with
\* neither a privacy nor an is_approved condition.
Feed(v) ==
    LET rows == {p \in posts :
                    \/ p.privacy = "public"
                    \/ \E f \in follows : f.following = p.user /\ f.follower = v
                    \/ p.user = v} IN
    /\ resp' = [Response("feed", v, 0, 200)
                   EXCEPT !.posts = PostIds(rows),
                          !.order = OrderBy(PostIds(rows), "-created_at")]
    /\ UNCHANGED <<graphVars, postVars, contentVars, auxVars>>

(* ---- UserViewSet ---- *)

\* UserViewSet._is_following_user
IsFollowingUser(target_user, request_user) ==
    IF request_user = Anonymous THEN FALSE
    ELSE IF FollowRows(request_user, target_user) = {} THEN FALSE
    ELSE (CHOOSE f \in FollowRows(request_user, target_user) : TRUE).is_approved

\* GET users/{username}/posts/ (IsAuthenticatedOrReadOnly: open to anonymous reads)
UserPosts(v, a) ==
    IF a \notin Users
    THEN /\ resp' = Response("user_posts", v, a, 404)
         /\ UNCHANGED <<graphVars, postVars, contentVars, auxVars>>
    ELSE IF is_private[a] /\ ~IsFollowingUser(a, v)
    THEN /\ resp' = Response("user_posts", v, a, 403)
         /\ UNCHANGED <<graphVars, postVars, contentVars, auxVars>>
    ELSE /\ resp' = [Response("user_posts", v, a, 200)
                        EXCEPT !.posts = PostIds({p \in posts : p.user = a})]
         /\ UNCHANGED <<graphVars, postVars, contentVars, auxVars>>

(* ---- PostViewSet: reactions and comments of a post ---- *)

\* PostViewSet.http_method_names / CommentViewSet.http_method_names: a request
\* whose method is not listed is answered 405 before any handler runs.
PostHttpMethodNames == {"get", "post", "put", "delete"}
CommentHttpMethodNames == {"get", "put", "delete"}

\* Reaction.objects.filter(user=user, post=post): at most one row (unique_together).
ReactionRows(user, pk) == {r \in reactions : r.user = user /\ r.post = pk}

\* react whose same-kind branch answers "removed" and leaves the row in place.
React_KeepOnSame(v, pk, kind) ==
    LET g == PostGetObject("react", "POST", v, pk) IN
    IF g.status # 200
    THEN /\ resp' = Response("react", v, pk, g.status)
         /\ UNCHANGED <<graphVars, postVars, contentVars, auxVars>>
    ELSE IF kind \notin ReactionChoices
    THEN /\ resp' = Response("react", v, pk, 400)
         /\ UNCHANGED <<graphVars, postVars, contentVars, auxVars>>
    ELSE IF ReactionRows(v, pk) # {}
    THEN LET existing_reaction == CHOOSE r \in ReactionRows(v, pk) : TRUE IN
         IF existing_reaction.reaction = kind
         THEN /\ reactions' = reactions
              /\ resp' = [Response("react", v, pk, 200) EXCEPT !.action = "removed", !.kind = kind]
              /\ UNCHANGED <<graphVars, postVars, next_reaction_id, comments, next_comment_id, auxVars>>
         ELSE /\ reactions' = (reactions \ {existing_reaction})
                                 \cup {[existing_reaction EXCEPT !.reaction = kind]}
              /\ resp' = [Response("react", v, pk, 200) EXCEPT !.action = "updated", !.kind = kind]
              /\ UNCHANGED <<graphVars, postVars, next_reaction_id, comments, next_comment_id, auxVars>>
    ELSE /\ next_reaction_id <= MaxReactions
         /\ reactions' = reactions \cup {[id |-> next_reaction_id, user |-> v,
                                            post |-> pk, reaction |-> kind]}
         /\ next_reaction_id' = next_reaction_id + 1
         /\ resp' = [Response("react", v, pk, 201) EXCEPT !.action = "added", !.kind = kind]
         /\ UNCHANGED <<graphVars, postVars, comments, next_comment_id, auxVars>>

\* POST posts/{pk}/react/ {reaction: kind}; the answer names the action taken and
\* the reaction type.
React(v, pk, kind) ==
    LET g == PostGetObject("react", "POST", v, pk) IN
    IF g.status # 200
    THEN /\ resp' = Response("react", v, pk, g.status)
         /\ UNCHANGED <<graphVars, postVars, contentVars, auxVars>>
    ELSE IF kind \notin ReactionChoices
    THEN /\ resp' = Response("react", v, pk, 400)
         /\ UNCHANGED <<graphVars, postVars, contentVars, auxVars>>
    ELSE IF ReactionRows(v, pk) # {}
    THEN LET existing_reaction == CHOOSE r \in ReactionRows(v, pk) : TRUE IN
         IF existing_reaction.reaction = kind
         THEN /\ reactions' = reactions \ {existing_reaction}
              /\ resp' = [Response("react", v, pk, 200) EXCEPT !.action = "removed", !.kind = kind]
              /\ UNCHANGED <<graphVars, postVars, next_reaction_id, comments, next_comment_id, auxVars>>
         ELSE /\ reactions' = (reactions \ {existing_reaction})
                                 \cup {[existing_reaction EXCEPT !.reaction = kind]}
              /\ resp' = [Response("react", v, pk, 200) EXCEPT !.action = "updated", !.kind = kind]
              /\ UNCHANGED <<graphVars, postVars, next_reaction_id, comments, next_comment_id, auxVars>>
    ELSE /\ next_reaction_id <= MaxReactions
         /\ reactions' = reactions \cup {[id |-> next_reaction_id, user |-> v,
                                            post |-> pk, reaction |-> kind]}
         /\ next_reaction_id' = next_reaction_id + 1
         /\ resp' = [Response("react", v, pk, 201) EXCEPT !.action = "added", !.kind = kind]
         /\ UNCHANGED <<graphVars, postVars, comments, next_comment_id, auxVars>>

\* DELETE posts/{pk}/react/
RemoveReaction(v, pk) ==
    LET g == PostGetObject("react", "DELETE", v, pk) IN
    IF g.status # 200
    THEN /\ resp' = Response("remove_reaction", v, pk, g.status)
         /\ UNCHANGED <<graphVars, postVars, contentVars, auxVars>>
    ELSE IF ReactionRows(v, pk) = {}
    THEN /\ resp' = [Response("remove_reaction", v, pk, 404) EXCEPT !.action = "no_reaction"]
         /\ UNCHANGED <<graphVars, postVars, contentVars, auxVars>>
    ELSE /\ reactions' = reactions \ ReactionRows(v, pk)
         /\ resp' = [Response("remove_reaction", v, pk, 200) EXCEPT !.action = "removed"]
         /\ UNCHANGED <<graphVars, postVars, next_reaction_id, comments, next_comment_id, auxVars>>

\* GET posts/{pk}/reactions/: the rows of the post as <<user, reaction>>
Reactions(v, pk) ==
    LET g == PostGetObject("reactions", "GET", v, pk) IN
    /\ resp' = [Response("reactions", v, pk, g.status)
                   EXCEPT !.items = IF g.status = 200
                                    THEN {<<r.user, r.reaction>> : r \in {x \in reactions : x.post = pk}}
                                    ELSE {}]
    /\ UNCHANGED <<graphVars, postVars, contentVars, auxVars>>

(* ---- react served concurrently: the database steps of the handler ---- *)

\* A Reaction table without the unique constraint on (user, post).
ReactionUniqueViolation_None(user, pk) == FALSE

\* unique_together = ("user", "post"): the database refuses the INSERT of a
\* second row for the pair with an IntegrityError.
ReactionUniqueViolation(user, pk) == ReactionRows(user, pk) # {}

\* The request in slot r has returned with this status and "action" field.
FinishReact(r, status, action) ==
    [inflight EXCEPT ![r].pc = "done", ![r].status = status, ![r].action = action]

\* POST posts/{pk}/react/ up to and including Reaction.objects.get(user, post):
\* get_object and the serializer may end the request; otherwise the row found
\* (or its absence) decides which write the handler will issue.
ReactBegin(r, v, pk, kind) ==
    /\ inflight[r].pc = "idle"
    /\ LET g == PostGetObject("react", "POST", v, pk)
           started == [inflight EXCEPT ![r].op = "react", ![r].user = v,
                                       ![r].target = pk, ![r].kind = kind]
       IN IF g.status # 200
          THEN inflight' = [started EXCEPT ![r].pc = "done", ![r].status = g.status]
          ELSE IF kind \notin ReactionChoices
          THEN inflight' = [started EXCEPT ![r].pc = "done", ![r].status = 400]
          ELSE IF ReactionRows(v, pk) # {}
          THEN LET existing_reaction == CHOOSE x \in ReactionRows(v, pk) : TRUE IN
               inflight' = [started EXCEPT
                              ![r].pc = IF existing_reaction.reaction = kind
                                        THEN "delete" ELSE "save",
                              ![r].row_id = existing_reaction.id]
          ELSE inflight' = [started EXCEPT ![r].pc = "create"]
    /\ UNCHANGED <<graphVars, postVars, contentVars, roleVars, subVars, resp>>

\* DELETE posts/{pk}/react/ up to and including Reaction.objects.get(user, post).
RemoveReactionBegin(r, v, pk) ==
    /\ inflight[r].pc = "idle"
    /\ LET g == PostGetObject("react", "DELETE", v, pk)
           started == [inflight EXCEPT ![r].op = "remove_reaction", ![r].user = v,
                                       ![r].target = pk]
       IN IF g.status # 200
          THEN inflight' = [started EXCEPT ![r].pc = "done", ![r].status = g.status]
          ELSE IF ReactionRows(v, pk) = {}
          THEN inflight' = [started EXCEPT ![r].pc = "done", ![r].status = 404,
                                           ![r].action = "no_reaction"]
          ELSE inflight' = [started EXCEPT
                              ![r].pc = "delete",
                              ![r].row_id = (CHOOSE x \in ReactionRows(v, pk) : TRUE).id]
    /\ UNCHANGED <<graphVars, postVars, contentVars, roleVars, subVars, resp>>

\* existing_reaction.delete() / reaction.delete(): DELETE of the row with the
\* primary key that was loaded; deleting a row that is gone already is no error.
ReactionDelete(r) ==
    /\ inflight[r].pc = "delete"
    /\ reactions' = {x \in reactions : x.id # inflight[r].row_id}
    /\ inflight' = FinishReact(r, 200, "removed")
    /\ UNCHANGED <<graphVars, postVars, next_reaction_id, comments, next_comment_id,
                   roleVars, subVars, resp>>

\* existing_reaction.save(): UPDATE of the row with the loaded primary key; when
\* that row is gone, Model.save falls back to an INSERT under the same primary
\* key, which the unique constraint may refuse (IntegrityError, not caught: 500).
ReactionSave(r) ==
    /\ inflight[r].pc = "save"
    /\ LET instance == [id |-> inflight[r].row_id, user |-> inflight[r].user,
                        post |-> inflight[r].target, reaction |-> inflight[r].kind]
           stored == {x \in reactions : x.id = inflight[r].row_id}
       IN IF stored # {}
          THEN /\ reactions' = (reactions \ stored) \cup {instance}
               /\ inflight' = FinishReact(r, 200, "updated")
          ELSE IF ReactionUniqueViolation(inflight[r].user, inflight[r].target)
          THEN /\ reactions' = reactions
               /\ inflight' = FinishReact(r, 500, "IntegrityError")
          ELSE /\ reactions' = reactions \cup {instance}
               /\ inflight' = FinishReact(r, 200, "updated")
    /\ UNCHANGED <<graphVars, postVars, next_reaction_id, comments, next_comment_id,
                   roleVars, subVars, resp>>

\* Reaction.objects.create(user, post, reaction): INSERT; an IntegrityError from
\* the unique constraint is not caught by the handler (500).
ReactionCreate(r) ==
    /\ inflight[r].pc = "create"
    /\ IF ReactionUniqueViolation(inflight[r].user, inflight[r].target)
       THEN /\ inflight' = [FinishReact(r, 500, "IntegrityError") EXCEPT ![r].raced = TRUE]
            /\ UNCHANGED <<reactions, next_reaction_id>>
       ELSE /\ next_reaction_id <= MaxReactions
            /\ reactions' = reactions \cup {[id |-> next_reaction_id,
                                              user |-> inflight[r].user,
                                              post |-> inflight[r].target,
                                              reaction |-> inflight[r].kind]}
            /\ next_reaction_id' = next_reaction_id + 1
            /\ inflight' = FinishReact(r, 201, "added")
    /\ UNCHANGED <<graphVars, postVars, comments, next_comment_id, roleVars, subVars, resp>>

\* The connection of a finished request is free for the next request.
ReleaseSlot(r) ==
    /\ inflight[r].pc = "done"
    /\ inflight' = [inflight EXCEPT ![r] = IdleRequest]
    /\ UNCHANGED <<graphVars, postVars, contentVars, roleVars, subVars, resp>>

CommentIds(rows) == {c.id : c \in rows}

\* Comment.save of a new row (no pk): is_edited keeps its default False.
NewComment(user, pk, text, parent) ==
    [id |-> next_comment_id, user |-> user, post |-> pk, text |-> text,
     is_edited |-> FALSE, parent_comment |-> parent]

\* GET posts/{pk}/comments/: the top-level comments of the post
PostCommentsGet(v, pk) ==
    LET g == PostGetObject("comments", "GET", v, pk)
        ids == IF g.status = 200
               THEN CommentIds({c \in comments : c.post = pk /\ c.parent_comment = 0})
               ELSE {} IN
    /\ resp' = [Response("post_comments", v, pk, g.status)
                   EXCEPT !.items = ids, !.order = OrderBy(ids, "-created_at")]
    /\ UNCHANGED <<graphVars, postVars, contentVars, auxVars>>

\* A serializer without validate_parent_comment: any existing comment is
\* accepted as the parent.
CommentCreateValid_AnyPost(pk, text, parent) ==
    /\ text # ""
    /\ parent # 0 => \E c \in comments : c.id = parent

\* CommentCreateSerializer.is_valid: text must not be blank; parent_comment, when
\* given (# 0), must be the pk of a comment, and validate_parent_comment
\* requires that comment to belong to the post of the view.
CommentCreateValid(pk, text, parent) ==
    /\ text # ""
    /\ parent # 0 =>
         /\ \E c \in comments : c.id = parent
         /\ (CHOOSE c \in comments : c.id = parent).post = pk

\* POST posts/{pk}/comments/ {text, parent_comment}
PostCommentsPost(v, pk, text, parent) ==
    LET g == PostGetObject("comments", "POST", v, pk)
        answer(status) == [Response("add_comment", v, pk, status) EXCEPT !.parent = parent]
    IN
    IF g.status # 200
    THEN /\ resp' = answer(g.status)
         /\ UNCHANGED <<graphVars, postVars, contentVars, auxVars>>
    ELSE IF ~CommentCreateValid(pk, text, parent)
    THEN /\ resp' = answer(400)
         /\ UNCHANGED <<graphVars, postVars, contentVars, auxVars>>
    ELSE /\ next_comment_id <= MaxCommentRows
         /\ comments' = comments \cup {NewComment(v, pk, text, parent)}
         /\ next_comment_id' = next_comment_id + 1
         /\ resp' = [answer(201) EXCEPT !.items = {next_comment_id}]
         /\ UNCHANGED <<graphVars, postVars, reactions, next_reaction_id, auxVars>>

(* ---- CommentViewSet ---- *)

\* get_object of CommentViewSet for retrieve and replies: the queryset is every
\* comment, and get_permissions gives these actions IsAuthenticated alone, which
\* has no object-level condition.
CommentGetObject(pk) ==
    LET rows == {c \in comments : c.id = pk} IN
    IF rows = {} THEN [status |-> 404, obj |-> NewComment(0, 0, "", 0)]
    ELSE [status |-> 200, obj |-> CHOOSE c \in rows : TRUE]

\* GET comments/: every comment
CommentList(v) ==
    /\ resp' = [Response("comment_list", v, 0, 200) EXCEPT !.items = CommentIds(comments)]
    /\ UNCHANGED <<graphVars, postVars, contentVars, auxVars>>

\* GET comments/{pk}/
CommentRetrieve(v, pk) ==
    LET g == CommentGetObject(pk) IN
    /\ resp' = [Response("comment_retrieve", v, pk, g.status)
                   EXCEPT !.items = IF g.status = 200 THEN {pk} ELSE {}]
    /\ UNCHANGED <<graphVars, postVars, contentVars, auxVars>>

\* GET comments/{pk}/replies/
RepliesGet(v, pk) ==
    LET g == CommentGetObject(pk)
        ids == IF g.status = 200
               THEN CommentIds({c \in comments : c.parent_comment = pk})
               ELSE {} IN
    /\ resp' = [Response("replies", v, pk, g.status)
                   EXCEPT !.items = ids, !.order = OrderBy(ids, "created_at")]
    /\ UNCHANGED <<graphVars, postVars, contentVars, auxVars>>

\* POST comments/{pk}/replies/ {text}: "post" is not in http_method_names of the
\* viewset, so the request is answered 405 and the handler body never runs.
RepliesPost(v, pk, text) ==
    IF "post" \notin CommentHttpMethodNames
    THEN /\ resp' = Response("add_reply", v, pk, 405)
         /\ UNCHANGED <<graphVars, postVars, contentVars, auxVars>>
    ELSE LET g == CommentGetObject(pk) IN
         IF g.status # 200
         THEN /\ resp' = Response("add_reply", v, pk, g.status)
              /\ UNCHANGED <<graphVars, postVars, contentVars, auxVars>>
         ELSE IF text = ""
         THEN /\ resp' = Response("add_reply", v, pk, 400)
              /\ UNCHANGED <<graphVars, postVars, contentVars, auxVars>>
         ELSE /\ next_comment_id <= MaxCommentRows
              /\ comments' = comments \cup {NewComment(v, g.obj.post, text, pk)}
              /\ next_comment_id' = next_comment_id + 1
              /\ resp' = [Response("add_reply", v, pk, 201) EXCEPT !.items = {next_comment_id}]
              /\ UNCHANGED <<graphVars, postVars, reactions, next_reaction_id, auxVars>>

\* CommentViewSet.get_permissions
CommentGetPermissions(action) ==
    IF action = "destroy"
    THEN {"IsAuthenticated", "IsCommentOwnerPostOwnerOrAdmin"}
    ELSE IF action \in {"update", "partial_update"}
    THEN {"IsAuthenticated", "IsCommentOwnerOrReadOnly"}
    ELSE {"IsAuthenticated"}

\* get_object of CommentViewSet for update and destroy: the pk is looked up
\* among all comments, then the object permissions of get_permissions apply.
CommentGetObjectChecked(action, method, user, pk) ==
    LET g == CommentGetObject(pk) IN
    IF g.status # 200 THEN g
    ELSE IF \A perm \in CommentGetPermissions(action) :
               HasObjectPermission(perm, method, user, g.obj)
    THEN g
    ELSE [status |-> 403, obj |-> g.obj]

\* Comment.save with the flag recomputed by every save from the comparison of
\* the two texts.
CommentSave_Recompute(original, text) ==
    [original EXCEPT !.text = text,
                     !.is_edited = (text # "" /\ original.text # text)]

\* Comment.save of an existing row: is_edited is set when the stored text
\* differs from the new one (and the new one is not empty).
CommentSave(original, text) ==
    IF text # "" /\ original.text # text
    THEN [original EXCEPT !.text = text, !.is_edited = TRUE]
    ELSE [original EXCEPT !.text = text]

\* The comment pk together with its replies, their replies, and so on: the rows
\* a delete takes along through parent_comment (on_delete=CASCADE).
RECURSIVE CommentCascade(_)
CommentCascade(ids) ==
    LET more == ids \cup {c.id : c \in {x \in comments : x.parent_comment \in ids}} IN
    IF more = ids THEN ids ELSE CommentCascade(more)

\* PUT comments/{pk}/ {text}: get_object (404, 403), the serializer (text is a
\* required, non-blank field: 400), then perform_update.
UpdateComment(v, pk, text) ==
    LET g == CommentGetObjectChecked("update", "PUT", v, pk) IN
    IF g.status # 200
    THEN /\ resp' = Response("update_comment", v, pk, g.status)
         /\ UNCHANGED <<graphVars, postVars, contentVars, auxVars>>
    ELSE IF text = ""
    THEN /\ resp' = Response("update_comment", v, pk, 400)
         /\ UNCHANGED <<graphVars, postVars, contentVars, auxVars>>
    ELSE /\ comments' = (comments \ {g.obj}) \cup {CommentSave(g.obj, text)}
         /\ resp' = Response("update_comment", v, pk, 200)
         /\ UNCHANGED <<graphVars, postVars, reactions, next_reaction_id, next_comment_id, auxVars>>

\* DELETE comments/{pk}/: get_object, then perform_destroy.
DestroyComment(v, pk) ==
    LET g == CommentGetObjectChecked("destroy", "DELETE", v, pk) IN
    IF g.status # 200
    THEN /\ resp' = Response("destroy_comment", v, pk, g.status)
         /\ UNCHANGED <<graphVars, postVars, contentVars, auxVars>>
    ELSE /\ comments' = {c \in comments : c.id \notin CommentCascade({pk})}
         /\ resp' = Response("destroy_comment", v, pk, 204)
         /\ UNCHANGED <<graphVars, postVars, reactions, next_reaction_id, next_comment_id, auxVars>>

(* ---- the admin site ---- *)

\* UserAdmin, "Permissions" fieldset: an administrator sets is_staff of user u.
SetStaff(u, b) ==
    /\ is_staff' = [is_staff EXCEPT ![u] = b]
    /\ resp' = Response("set_staff", u, u, 200)
    /\ UNCHANGED <<graphVars, postVars, contentVars, is_superuser, inflight, subVars>>

\* UserAdmin, "Permissions" fieldset: an administrator sets is_superuser of user u.
SetSuperuser(u, b) ==
    /\ is_superuser' = [is_superuser EXCEPT ![u] = b]
    /\ resp' = Response("set_superuser", u, u, 200)
    /\ UNCHANGED <<graphVars, postVars, contentVars, is_staff, inflight, subVars>>

(* ---- the subscription ---- *)

\* The clock: a day passes.
Tick ==
    /\ now < MaxNow
    /\ now' = now + 1
    /\ resp' = Response("tick", 0, 0, 0)
    /\ UNCHANGED <<graphVars, postVars, contentVars, roleVars, inflight,
                   is_pro, pro_subscription_start, pro_subscription_end>>

\* The expiry test of is_pro_active and check_pro_status:
\* pro_subscription_end is set and timezone.now() > pro_subscription_end.
Expired(u) ==
    pro_subscription_end[u] # NoTime /\ now > pro_subscription_end[u]

\* POST payment/success/ with the tran_id of user u: the account gets is_pro
\* and a window of ProDays from now; an unknown user id changes nothing. The
\* answer is a redirect either way.
PaymentSuccess(u) ==
    /\ IF u \in Users
       THEN /\ is_pro' = [is_pro EXCEPT ![u] = TRUE]
            /\ pro_subscription_start' = [pro_subscription_start EXCEPT ![u] = now]
            /\ pro_subscription_end' = [pro_subscription_end EXCEPT ![u] = now + ProDays]
       ELSE UNCHANGED <<is_pro, pro_subscription_start, pro_subscription_end>>
    /\ resp' = Response("payment_success", u, u, 302)
    /\ UNCHANGED <<graphVars, postVars, contentVars, roleVars, inflight, now>>

\* User.is_pro_active: False without is_pro; an expired window clears is_pro
\* (saved) and gives False; otherwise True.
IsProActive(u) ==
    /\ IF ~is_pro[u]
       THEN /\ resp' = Response("is_pro_active", u, u, 200)
            /\ UNCHANGED is_pro
       ELSE IF Expired(u)
       THEN /\ is_pro' = [is_pro EXCEPT ![u] = FALSE]
            /\ resp' = Response("is_pro_active", u, u, 200)
       ELSE /\ resp' = [Response("is_pro_active", u, u, 200) EXCEPT !.is_pro = TRUE]
            /\ UNCHANGED is_pro
    /\ UNCHANGED <<graphVars, postVars, contentVars, roleVars, inflight,
                   pro_subscription_start, pro_subscription_end, now>>

\* GET payment/check-pro-status/: an anonymous request.user has no is_pro and
\* is answered False; an expired window clears is_pro (saved); the answer
\* carries is_pro as it then is.
CheckProStatus(v) ==
    /\ IF v = Anonymous
       THEN /\ resp' = Response("check_pro_status", v, v, 200)
            /\ UNCHANGED is_pro
       ELSE IF is_pro[v] /\ Expired(v)
       THEN /\ is_pro' = [is_pro EXCEPT ![v] = FALSE]
            /\ resp' = Response("check_pro_status", v, v, 200)
       ELSE /\ resp' = [Response("check_pro_status", v, v, 200) EXCEPT !.is_pro = is_pro[v]]
            /\ UNCHANGED is_pro
    /\ UNCHANGED <<graphVars, postVars, contentVars, roleVars, inflight,
                   pro_subscription_start, pro_subscription_end, now>>

(* ---- the per-object post permission, applied to a request ---- *)

Methods == {"GET", "PUT", "DELETE"}

\* check_object_permissions with IsPostOwnerOrReadOnly on post pk for a request
\* of user v: the decision of each of the two copies of the class.
CheckPostPermission(method, v, pk) ==
    /\ \E p \in posts : p.id = pk
    /\ LET obj == CHOOSE p \in posts : p.id = pk IN
       resp' = [Response("check_post_permission", v, pk, 200)
                   EXCEPT !.method = method,
                          !.api_allowed = ApiIsPostOwnerOrReadOnly(method, v, obj),
                          !.posts_allowed = PostsIsPostOwnerOrReadOnly(method, v, obj)]
    /\ UNCHANGED <<graphVars, postVars, contentVars, auxVars>>

(* ---- specifications ---- *)

\* Spec: accounts, the follow graph, posts and the post read operations.
\* SpecReactions: posts and their reactions.
\* SpecComments: posts and their comments.
\* SpecGraph: accounts and the follow graph alone.
\* SpecPermissions: the follow graph, posts, and the per-object post permission.
\* SpecFollowRace: follow_user served concurrently, step by step.
\* SpecPostWrites: follow edges, posts, and the update and delete of a post.
\* SpecCommentWrites: comments, role flags, and the update and delete of a comment.
\* SpecReactRace: react and remove-reaction served concurrently, step by step.
\* SpecThreads: comments and replies across posts, and the delete of a thread.
\* SpecEdits: the updates of a comment's text.
\* SpecSubscription: the clock, payments, and the evaluation of a subscription.
\* SpecOrdering: posts, comments, replies, and the order of their listings.
\* SpecApproveRace: approve of a follow request in two steps, against unfollow.

NextGraph ==
    \/ \E u \in Users, b \in BOOLEAN : SetPrivacy(u, b)
    \/ \E v \in Users, a \in Users \cup {NoSuchUser} : FollowUser(v, a)
    \/ \E v \in Users, a \in Users \cup {NoSuchUser} : UnfollowUser(v, a)
    \/ \E v \in Users, id \in 1..MaxFollows, act \in {"Approve", "Reject"} :
          HandlePendingRequest(v, id, act)
    \/ \E v \in Users : Following(v)
    \/ \E v \in Users : Followers(v)
    \/ \E v \in Users : PendingRequests(v)

SpecGraph == Init /\ [][NextGraph]_vars

\* SpecFollowRace: two follow_user requests served at the same time, with
\* privacy changes in between.
NextFollowRace ==
    \/ \E u \in Users, b \in BOOLEAN : SetPrivacy(u, b)
    \/ \E r \in Slots, v \in Users, a \in Users \cup {NoSuchUser} : FollowBegin(r, v, a)
    \/ \E r \in Slots : FollowInsert(r)
    \/ \E r \in Slots : FollowRetryGet(r)

SpecFollowRace == Init /\ [][NextFollowRace]_vars

\* SpecPostWrites: accounts, follow edges (none, pending, approved), posts, and
\* the update and delete of a post.
NextPostWrites ==
    \/ \E u \in Users, b \in BOOLEAN : SetPrivacy(u, b)
    \/ \E v \in Users : \E a \in Users \ {v} : FollowUser(v, a)
    \/ \E v \in Users, id \in 1..MaxFollows : HandlePendingRequest(v, id, "Approve")
    \/ \E u \in Users, privacy \in Privacy :
          next_post_id <= MaxPosts /\ CreatePost(u, privacy)
    \/ \E v \in Users, pk \in 1..MaxPosts, privacy \in Privacy \cup {"bogus"} :
          UpdatePost(v, pk, privacy)
    \/ \E v \in Users, pk \in 1..MaxPosts : DestroyPost(v, pk)

SpecPostWrites == Init /\ [][NextPostWrites]_vars

\* SpecCommentWrites: posts, the comments "a" of the first post and the replies
\* to its first comment, the staff and superuser flags, and the update (to
\* "b" or to an empty text) and the delete of a comment.
NextCommentWrites ==
    \/ \E u \in Users : next_post_id <= MaxPosts /\ CreatePost(u, "public")
    \/ \E v \in Users, parent \in {0, 1} :
          next_comment_id <= MaxComments /\ PostCommentsPost(v, 1, "a", parent)
    \/ \E u \in Admins, b \in BOOLEAN : SetStaff(u, b)
    \/ \E u \in Admins, b \in BOOLEAN : SetSuperuser(u, b)
    \/ \E v \in Users, pk \in 1..MaxComments, text \in {"b", ""} : UpdateComment(v, pk, text)
    \/ \E v \in Users, pk \in 1..MaxComments : DestroyComment(v, pk)

SpecCommentWrites == Init /\ [][NextCommentWrites]_vars

\* SpecReactRace: react and remove-reaction requests of the users on the first
\* post, a public one, two of them in progress at any time.
NextReactRace ==
    \/ \E u \in Users : next_post_id <= MaxPosts /\ CreatePost(u, "public")
    \/ \E r \in Slots, v \in Users, kind \in ReactionChoices \cup {"bogus"} :
          ReactBegin(r, v, 1, kind)
    \/ \E r \in Slots, v \in Users : RemoveReactionBegin(r, v, 1)
    \/ \E r \in Slots : ReactionDelete(r)
    \/ \E r \in Slots : ReactionSave(r)
    \/ \E r \in Slots : ReactionCreate(r)
    \/ \E r \in Slots : ReleaseSlot(r)

SpecReactRace == Init /\ [][NextReactRace]_vars

\* SpecThreads: public posts of user 1; the comments and replies of user 2 on
\* them, the replies operation, and the delete of a comment with its replies.
NextThreads ==
    \/ next_post_id <= MaxPostRows /\ CreatePost(1, "public")
    \/ \E pk \in 1..MaxPostRows, parent \in 0..MaxCommentRows :
          PostCommentsPost(2, pk, "a", parent)
    \/ \E pk \in 1..MaxCommentRows : RepliesPost(2, pk, "a")
    \/ \E pk \in 1..MaxCommentRows : DestroyComment(2, pk)

SpecThreads == Init /\ [][NextThreads]_vars

\* SpecEdits: the comments "a" of user 2 on the public post of user 1, their
\* updates (to either text or to an empty one) by both users, and their delete.
NextEdits ==
    \/ next_post_id <= MaxPosts /\ CreatePost(1, "public")
    \/ next_comment_id <= MaxComments /\ PostCommentsPost(2, 1, "a", 0)
    \/ \E v \in Users, pk \in 1..MaxComments, text \in Texts \cup {""} :
          UpdateComment(v, pk, text)
    \/ \E pk \in 1..MaxComments : DestroyComment(2, pk)

SpecEdits == Init /\ [][NextEdits]_vars

\* SpecSubscription: the clock, the payments of the subscribers, and the two
\* evaluations of the subscription.
NextSubscription ==
    \/ Tick
    \/ \E u \in Subscribers \cup {NoSuchUser} : PaymentSuccess(u)
    \/ \E u \in Subscribers : IsProActive(u)
    \/ \E v \in Subscribers \cup {Anonymous} : CheckProStatus(v)

SpecSubscription == Init /\ [][NextSubscription]_vars

\* SpecOrdering: public posts of both users, the comments of user 2 on the
\* first post and their replies to its first comment, and the listings.
NextOrdering ==
    \/ \E u \in Users : next_post_id <= MaxPostRows /\ CreatePost(u, "public")
    \/ \E parent \in {0, 1} : PostCommentsPost(2, 1, "a", parent)
    \/ \E v \in Users, param \in {"none", "created_at", "-created_at", "bogus"} :
          ListPostsOrdered(v, param)
    \/ \E v \in Users : Feed(v)
    \/ \E v \in Users : MyPosts(v)
    \/ PostCommentsGet(2, 1)
    \/ RepliesGet(2, 1)

SpecOrdering == Init /\ [][NextOrdering]_vars

\* SpecApproveRace: privacy changes, follow and unfollow requests, and approve
\* requests in two steps, two of them in progress at any time.
NextApproveRace ==
    \/ \E u \in Users, b \in BOOLEAN : SetPrivacy(u, b)
    \/ \E v \in Users, a \in Users : FollowUser(v, a)
    \/ \E v \in Users, a \in Users : UnfollowUser(v, a)
    \/ \E r \in Slots, v \in Users, id \in 1..MaxFollows : ApproveBegin(r, v, id)
    \/ \E r \in Slots : ApproveSave(r)
    \/ \E r \in Slots : ReleaseSlot(r)

SpecApproveRace == Init /\ [][NextApproveRace]_vars

NextPermissions ==
    \/ \E u \in Users, b \in BOOLEAN : SetPrivacy(u, b)
    \/ \E v \in Users, a \in Users : FollowUser(v, a)
    \/ \E v \in Users, a \in Users : UnfollowUser(v, a)
    \/ \E v \in Users, id \in 1..MaxFollows, act \in {"Approve", "Reject"} :
          HandlePendingRequest(v, id, act)
    \/ \E u \in Users, privacy \in Privacy :
          next_post_id <= MaxPosts /\ CreatePost(u, privacy)
    \/ \E method \in Methods, v \in Users, pk \in 1..MaxPosts : CheckPostPermission(method, v, pk)

SpecPermissions == Init /\ [][NextPermissions]_vars

NextReactions ==
    \/ \E u \in Users, privacy \in Privacy :
          next_post_id <= MaxPosts /\ CreatePost(u, privacy)
    \/ \E v \in Users, pk \in 1..MaxPosts, kind \in ReactionChoices \cup {"bogus"} :
          React(v, pk, kind)
    \/ \E v \in Users, pk \in 1..MaxPosts : RemoveReaction(v, pk)
    \/ \E v \in Users, pk \in 1..MaxPosts : Reactions(v, pk)

SpecReactions == Init /\ [][NextReactions]_vars

NextComments ==
    \/ \E u \in Users, privacy \in Privacy :
          next_post_id <= MaxPosts /\ CreatePost(u, privacy)
    \/ \E v \in Users, pk \in 1..MaxPosts : PostCommentsGet(v, pk)
    \/ \E v \in Users, pk \in 1..MaxPosts, text \in Texts \cup {""}, parent \in 0..MaxComments :
          next_comment_id <= MaxComments /\ PostCommentsPost(v, pk, text, parent)
    \/ \E v \in Users : CommentList(v)
    \/ \E v \in Users, pk \in 1..MaxComments : CommentRetrieve(v, pk)
    \/ \E v \in Users, pk \in 1..MaxComments : RepliesGet(v, pk)
    \/ \E v \in Users, pk \in 1..MaxComments, text \in Texts \cup {""} : RepliesPost(v, pk, text)

SpecComments == Init /\ [][NextComments]_vars

Next ==
    \/ \E u \in Users, privacy \in Privacy :
          next_post_id <= MaxPosts /\ CreatePost(u, privacy)
    \/ \E v \in Users : ListPosts(v)
    \/ \E v \in Users, pk \in 1..MaxPosts : RetrievePost(v, pk)
    \/ \E v \in Users : Feed(v)
    \/ \E v \in Users \cup {Anonymous}, a \in Users \cup {NoSuchUser} : UserPosts(v, a)
    \/ \E u \in Users, b \in BOOLEAN : SetPrivacy(u, b)
    \/ \E v \in Users, a \in Users \cup {NoSuchUser} : FollowUser(v, a)
    \/ \E v \in Users, a \in Users \cup {NoSuchUser} : UnfollowUser(v, a)
    \/ \E v \in Users, id \in 1..MaxFollows, act \in {"Approve", "Reject"} :
          HandlePendingRequest(v, id, act)

Spec == Init /\ [][Next]_vars

(***************************************************************************)
(* Properties                                                              *)
(***************************************************************************)

\* The follow edges from v to u, and their two states.
EdgesBetween(v, u) == {f \in follows : f.follower = v /\ f.following = u}
ActiveEdge(v, u) == \E f \in EdgesBetween(v, u) : f.is_approved
PendingEdge(v, u) == \E f \in EdgesBetween(v, u) : ~f.is_approved

PostById(pk) == CHOOSE p \in posts : p.id = pk
CommentById(pk) == CHOOSE c \in comments : c.id = pk

\* The post read rule of the specification: public, or the viewer's own post,
\* or a followers post whose owner the viewer follows with an approved edge.
PostReadRule(v, p) ==
    \/ p.privacy = "public"
    \/ p.user = v
    \/ p.privacy = "followers" /\ ActiveEdge(v, p.user)

ReadOps == {"list", "feed", "retrieve", "user_posts"}
Succeeded == resp.status \in {200, 201}

\* C1: the post list returns exactly the posts that are public, the viewer's
\* own, or followers posts of an owner the viewer follows with an approved edge.
C1_ListIsReadRule ==
    resp.op = "list" =>
        resp.posts = {p.id : p \in {q \in posts : PostReadRule(resp.user, q)}}

\* C2: a detail fetch of a post succeeds only if the viewer passes the post
\* read rule for it.
C2_RetrieveOnlyReadable ==
    (resp.op = "retrieve" /\ Succeeded) =>
        PostReadRule(resp.user, PostById(resp.target))

\* C3: every post a collection query (list, feed) returns to a viewer passes
\* the per-object read check IsPostOwnerOrReadOnly for that viewer.
C3_CoarseImpliesFine ==
    (resp.op \in {"list", "feed"}) =>
        \A pk \in resp.posts :
            ApiIsPostOwnerOrReadOnly("GET", resp.user, PostById(pk))

\* C4: while the viewer's edge to a private owner is pending, no read operation
\* shows the viewer a followers post of that owner; once the edge is approved
\* the post list shows the viewer every followers post of the owner.
C4_ApprovalUnlocks ==
    /\ (resp.op \in ReadOps /\ Succeeded) =>
          \A pk \in resp.posts :
             LET p == PostById(pk) IN
             ~(/\ p.privacy = "followers"
               /\ p.user # resp.user
               /\ is_private[p.user]
               /\ PendingEdge(resp.user, p.user))
    /\ resp.op = "list" =>
          \A p \in posts :
             (p.privacy = "followers" /\ ActiveEdge(resp.user, p.user)) => p.id \in resp.posts

\* C5: for a read request the per-object predicate allows exactly what the post
\* read rule allows (public: always; private: the owner; followers: the owner
\* or an approved follower), and its two copies decide alike for every method.
C5_ReadPredicate ==
    resp.op = "check_post_permission" =>
        LET p == PostById(resp.target) IN
        /\ resp.method = "GET" =>
             /\ p.privacy = "public" => resp.api_allowed
             /\ p.privacy = "private" => (resp.api_allowed <=> resp.user = p.user)
             /\ p.privacy = "followers" =>
                   (resp.api_allowed <=> (resp.user = p.user \/ ActiveEdge(resp.user, p.user)))
        /\ resp.api_allowed <=> resp.posts_allowed

\* C5 witness: the predicate has denied a read of a followers post to a viewer
\* whose edge to the owner is pending.
C5_Witness ==
    /\ resp.op = "check_post_permission"
    /\ resp.method = "GET"
    /\ PostById(resp.target).privacy = "followers"
    /\ PendingEdge(resp.user, PostById(resp.target).user)
    /\ ~resp.api_allowed

\* C6: the posts of a private account A are served to viewer V exactly when
\* V = A or V follows A with an approved edge.
C6_PrivateAccountPosts ==
    (resp.op = "user_posts" /\ resp.target \in Users /\ is_private[resp.target]) =>
        (Succeeded <=> (resp.user = resp.target \/ ActiveEdge(resp.user, resp.target)))

\* C7: the user-posts operation never returns a private post to a viewer who
\* is not its owner.
C7_UserPostsNoPrivate ==
    resp.op = "user_posts" =>
        \A pk \in resp.posts :
            PostById(pk).privacy = "private" => PostById(pk).user = resp.user

\* The parent posts a sub-resource response gives access to.
SubResourceOps ==
    {"react", "remove_reaction", "reactions", "post_comments", "add_comment",
     "comment_list", "comment_retrieve", "replies", "add_reply"}
PostSubOps == {"react", "remove_reaction", "reactions", "post_comments", "add_comment"}
ParentPosts ==
    IF resp.op \in PostSubOps THEN {resp.target}
    ELSE IF resp.op = "comment_list" THEN {CommentById(c).post : c \in resp.items}
    ELSE {CommentById(resp.target).post}

\* C8: an operation on a post's reactions or comments succeeds only for a viewer
\* who passes the read rule of the parent post.
C8_SubResourcesInheritReadRule ==
    (resp.op \in SubResourceOps /\ Succeeded) =>
        \A pk \in ParentPosts : PostReadRule(resp.user, PostById(pk))

\* C9: a follow request to an account that is public at the time of the request
\* returns an approved edge.
C9_PublicFollowApproved ==
    (resp.op = "follow_user" /\ Succeeded /\ ~resp.is_private) => resp.is_approved

\* A step that is the follow request of v to a.
IsFollowStep(v, a) == resp'.op = "follow_user" /\ resp'.user = v /\ resp'.target = a

\* C10: a follow request to a private account with no edge creates a pending
\* edge and reports created; the same request repeated right after it returns
\* that edge, not created and still pending, and changes no edge.
C10_PrivateFollowIdempotent ==
    [][\A v \in Users, a \in Users :
         (v # a /\ IsFollowStep(v, a)) =>
            /\ (is_private[a] /\ EdgesBetween(v, a) = {}) =>
                  /\ resp'.created
                  /\ ~resp'.is_approved
                  /\ resp'.follow_id \notin {f.id : f \in follows}
                  /\ follows' = follows \cup {[id |-> resp'.follow_id, follower |-> v,
                                               following |-> a, is_approved |-> FALSE]}
            /\ (/\ resp.op = "follow_user" /\ resp.user = v /\ resp.target = a
                /\ resp.created /\ ~resp.is_approved) =>
                  /\ ~resp'.created
                  /\ resp'.follow_id = resp.follow_id
                  /\ ~resp'.is_approved
                  /\ follows' = follows
    ]_vars

\* C10 witness: a repeated follow request to a private account has returned the
\* existing pending edge.
C10_Witness ==
    /\ resp.op = "follow_user"
    /\ resp.status = 200
    /\ ~resp.created
    /\ ~resp.is_approved
    /\ resp.is_private
    /\ \E f \in EdgesBetween(resp.user, resp.target) : f.id = resp.follow_id /\ ~f.is_approved

\* The step is the pending_requests POST of user v on row id with action act.
IsPendingStep(v, id, act) ==
    /\ resp'.op = "pending_requests"
    /\ resp'.user = v
    /\ resp'.target = id
    /\ resp'.action = act

\* The Follow table with row f approved and every other row as it was.
WithApproved(f) == (follows \ {f}) \cup {[f EXCEPT !.is_approved = TRUE]}

C13_ApprovedStaysApproved ==
    [][\A f \in follows :
         f.is_approved => \A g \in follows' : g.id = f.id => g.is_approved]_vars

\* C13 witness: an approved edge to an account that has since become private,
\* returned as it is by a repeated follow request.
C13_Witness ==
    /\ resp.op = "follow_user"
    /\ resp.status = 200
    /\ resp.is_private
    /\ resp.is_approved
    /\ \E f \in EdgesBetween(resp.user, resp.target) : f.id = resp.follow_id /\ f.is_approved

\* The step is a GET of one of the three listings of FollowViewSet.
ListingOps == {"following", "followers", "pending_list"}

\* C14: a reject by the followee deletes the pending edge, a reject by anyone
\* else fails and leaves it; no listing shows a pair that has no row; a follow
\* request for a pair without a row creates a row under a primary key never
\* used before, seeded from the followee's privacy at that time.
C14_RejectDeletes ==
    [][/\ \A v \in Users, id \in 1..MaxFollows :
            IsPendingStep(v, id, "Reject") =>
              \A f \in follows :
                 (f.id = id /\ ~f.is_approved) =>
                    IF f.following = v
                    THEN /\ resp'.status = 200
                         /\ follows' = follows \ {f}
                         /\ EdgesBetween(f.follower, f.following)' = {}
                    ELSE resp'.status # 200 /\ follows' = follows
       /\ resp'.op \in ListingOps =>
            /\ resp'.items \subseteq FollowPairs(follows')
            /\ resp'.op = "pending_list" =>
                  resp'.items = {<<f.follower, f.following>> :
                                    f \in {x \in follows' : x.following = resp'.user /\ ~x.is_approved}}
            /\ resp'.op = "followers" =>
                  resp'.items = {<<f.follower, f.following>> :
                                    f \in {x \in follows' : x.following = resp'.user /\ x.is_approved}}
            /\ resp'.op = "following" =>
                  resp'.items = {<<f.follower, f.following>> :
                                    f \in {x \in follows' : x.follower = resp'.user /\ x.is_approved}}
       /\ \A v \in Users, a \in Users :
            (IsFollowStep(v, a) /\ a # v /\ EdgesBetween(v, a) = {}) =>
               /\ resp'.created
               /\ follows' = follows \cup {[id |-> next_follow_id, follower |-> v,
                                             following |-> a, is_approved |-> ~is_private[a]]}
       /\ \A f \in follows : f.id < next_follow_id
       /\ next_follow_id' >= next_follow_id]_vars

\* C14 witness: the followee has rejected a pending edge; the row is gone, the
\* pair has no edge, and the next primary key is past the rejected one.
C14_Witness ==
    /\ resp.op = "pending_requests"
    /\ resp.action = "Reject"
    /\ resp.status = 200
    /\ \A f \in follows : f.id # resp.follow_id
    /\ \A u \in Users : EdgesBetween(u, resp.user) = {}
    /\ resp.follow_id < next_follow_id

\* C15: unfollow by v of a deletes the one row v -> a, pending or approved, and
\* no other row; when there is none it fails with the not-following outcome and
\* changes nothing.
C15_UnfollowExact ==
    [][\A v \in Users, a \in Users :
         (resp'.op = "unfollow_user" /\ resp'.user = v /\ resp'.target = a) =>
            IF EdgesBetween(v, a) # {}
            THEN /\ resp'.status = 200
                 /\ Cardinality(EdgesBetween(v, a)) = 1
                 /\ follows' = follows \ EdgesBetween(v, a)
            ELSE /\ resp'.status = 404
                 /\ resp'.action = "not_following"
                 /\ follows' = follows]_vars

\* C15 witness: an unfollow has succeeded and the reverse edge is still there.
C15_Witness ==
    /\ resp.op = "unfollow_user"
    /\ resp.status = 200
    /\ EdgesBetween(resp.user, resp.target) = {}
    /\ EdgesBetween(resp.target, resp.user) # {}

\* Some request of FollowViewSet or of the account settings made by user u.
RequestBy(u) ==
    \/ \E b \in BOOLEAN : SetPrivacy(u, b)
    \/ \E a \in Users \cup {NoSuchUser} : FollowUser(u, a)
    \/ \E a \in Users \cup {NoSuchUser} : UnfollowUser(u, a)
    \/ \E id \in 1..MaxFollows, act \in {"Approve", "Reject"} : HandlePendingRequest(u, id, act)
    \/ Following(u)
    \/ Followers(u)
    \/ PendingRequests(u)

\* C16 as stated: for every approved edge F -> U, some request of the followee U
\* leads to a state with no edge F -> U.
C16_FolloweeCanRemove ==
    \A f \in follows :
       f.is_approved =>
          ENABLED (RequestBy(f.following) /\ EdgesBetween(f.follower, f.following)' = {})

\* C16 amended: among the follow operations, an approved edge F -> U is removed
\* only by a successful unfollow of U by F; the followee has no operation that
\* removes it: a reject by U of the approved edge is answered 404 and changes
\* nothing.
C16_OnlyFollowerRemovesActive ==
    [][/\ \A f \in follows :
            (f.is_approved /\ f \notin follows') =>
               /\ resp'.op = "unfollow_user"
               /\ resp'.status = 200
               /\ resp'.user = f.follower
               /\ resp'.target = f.following
       /\ \A v \in Users, id \in 1..MaxFollows :
            (IsPendingStep(v, id, "Reject")
               /\ \E f \in follows : f.id = id /\ f.following = v /\ f.is_approved) =>
               /\ resp'.status = 404
               /\ follows' = follows]_vars

\* C16 witness: the followee of an approved edge has tried to reject it and got
\* 404; the edge is still there.
C16_Witness ==
    /\ resp.op = "pending_requests"
    /\ resp.action = "Reject"
    /\ resp.status = 404
    /\ \E f \in follows : f.id = resp.target /\ f.following = resp.user /\ f.is_approved

\* C17: no row has follower = following, and a follow request whose target is
\* the acting user is answered 400 and changes no row.
C17_NoSelfFollow ==
    [][/\ \A f \in follows' : f.follower # f.following
       /\ \A v \in Users :
            IsFollowStep(v, v) =>
               /\ resp'.status = 400
               /\ ~resp'.created
               /\ follows' = follows]_vars

\* C17 witness: a user has asked to follow themselves and got 400.
C17_Witness ==
    /\ resp.op = "follow_user"
    /\ resp.user = resp.target
    /\ resp.status = 400
    /\ EdgesBetween(resp.user, resp.user) = {}

\* C18: two follow requests for the same pair, however their steps interleave,
\* never leave two rows for the pair; once both have returned there is exactly
\* one row, one request reports created = true (201) and the other
\* created = false (200), both name that row, and neither ended in an error.
C18_ConcurrentFollowOnce ==
    /\ \A f \in follows, g \in follows :
          (f.follower = g.follower /\ f.following = g.following) => f = g
    /\ \A r1 \in Slots, r2 \in Slots :
          (/\ r1 # r2
           /\ inflight[r1].pc = "done" /\ inflight[r2].pc = "done"
           /\ inflight[r1].user = inflight[r2].user
           /\ inflight[r1].target = inflight[r2].target
           /\ inflight[r1].target \in Users \ {inflight[r1].user}) =>
             /\ Cardinality(EdgesBetween(inflight[r1].user, inflight[r1].target)) = 1
             /\ {inflight[r1].created, inflight[r2].created} = {TRUE, FALSE}
             /\ {inflight[r1].status, inflight[r2].status} = {200, 201}
             /\ inflight[r1].created <=> inflight[r1].status = 201
             /\ \A f \in EdgesBetween(inflight[r1].user, inflight[r1].target) :
                   inflight[r1].follow_id = f.id /\ inflight[r2].follow_id = f.id

\* C18 witness: both requests for the pair have returned, and one of them lost
\* the race: its INSERT hit the unique constraint after its SELECT found no row.
C18_Witness ==
    \E r1 \in Slots, r2 \in Slots :
       /\ r1 # r2
       /\ inflight[r1].pc = "done" /\ inflight[r2].pc = "done"
       /\ inflight[r1].user = inflight[r2].user
       /\ inflight[r1].target = inflight[r2].target
       /\ inflight[r1].created
       /\ inflight[r2].raced /\ ~inflight[r2].created /\ inflight[r2].status = 200

\* C19: an update or a delete of an existing post succeeds exactly for its
\* owner; the decision does not depend on the post's privacy or on any follow
\* edge; a non-owner is answered 403 and the post, its reactions and its
\* comments are left as they were.
C19_OwnerOnlyWrites ==
    [][\A v \in Users, pk \in 1..MaxPosts :
         (/\ resp'.op \in {"update_post", "destroy_post"}
          /\ resp'.user = v /\ resp'.target = pk
          /\ \E p \in posts : p.id = pk) =>
            IF PostById(pk).user = v
            THEN /\ resp'.op = "destroy_post" =>
                      resp'.status = 204 /\ posts' = posts \ {PostById(pk)}
                 /\ resp'.op = "update_post" =>
                      /\ resp'.status \in {200, 400}
                      /\ resp'.status = 400 => posts' = posts
                      /\ resp'.status = 200 =>
                            \E privacy \in Privacy :
                               posts' = (posts \ {PostById(pk)})
                                           \cup {[PostById(pk) EXCEPT !.privacy = privacy]}
            ELSE /\ resp'.status = 403
                 /\ posts' = posts
                 /\ reactions' = reactions
                 /\ comments' = comments]_vars

\* C19 witness: a follower with an approved edge, who can read the followers
\* post, has tried to update it and got 403.
C19_Witness ==
    /\ resp.op = "update_post"
    /\ resp.status = 403
    /\ \E p \in posts :
          /\ p.id = resp.target
          /\ p.user # resp.user
          /\ p.privacy = "followers"
          /\ ActiveEdge(resp.user, p.user)

\* C20: an update of an existing comment is permitted exactly to its owner; a
\* delete is permitted exactly to the comment's owner, the owner of its post, a
\* staff user or a superuser; so whoever may update may delete; whoever is
\* refused gets 403 and the comments are left as they were.
C20_CommentWriteRule ==
    [][\A v \in Users, pk \in 1..MaxComments :
         (/\ resp'.op \in {"update_comment", "destroy_comment"}
          /\ resp'.user = v /\ resp'.target = pk
          /\ \E c \in comments : c.id = pk) =>
            LET c == CommentById(pk)
                may_update == c.user = v
                may_delete == \/ c.user = v
                              \/ PostById(c.post).user = v
                              \/ is_staff[v]
                              \/ is_superuser[v]
            IN /\ may_update => may_delete
               /\ resp'.op = "update_comment" =>
                     IF may_update
                     THEN /\ resp'.status \in {200, 400}
                          /\ resp'.status = 200 => \E x \in comments' : x.id = pk /\ x.user = v
                     ELSE resp'.status = 403 /\ comments' = comments
               /\ resp'.op = "destroy_comment" =>
                     IF may_delete
                     THEN /\ resp'.status = 204
                          /\ \A x \in comments' : x.id # pk
                     ELSE resp'.status = 403 /\ comments' = comments]_vars

\* C20 witness: a user who owns neither the comment nor its post and is neither
\* staff nor superuser has tried to delete the comment and got 403; the
\* comment is still there.
C20_Witness ==
    /\ resp.op = "destroy_comment"
    /\ resp.status = 403
    /\ ~is_staff[resp.user] /\ ~is_superuser[resp.user]
    /\ \E c \in comments :
          /\ c.id = resp.target
          /\ c.user # resp.user
          /\ PostById(c.post).user # resp.user

\* C21: in every state reached by react and remove-reaction requests, however
\* their database steps interleave, at most one Reaction row exists per
\* (user, post) pair and no two rows share a primary key.
C21_OneReactionPerPair ==
    \A x \in reactions, y \in reactions :
       ((x.user = y.user /\ x.post = y.post) \/ x.id = y.id) => x = y

\* C21 witness: two react requests of one user on one post both found no row;
\* one has inserted its row, the INSERT of the other was refused, and the pair
\* has exactly one row.
C21_Witness ==
    \E r1 \in Slots, r2 \in Slots :
       /\ r1 # r2
       /\ inflight[r1].pc = "done" /\ inflight[r1].action = "added"
       /\ inflight[r2].pc = "done" /\ inflight[r2].raced
       /\ inflight[r1].user = inflight[r2].user
       /\ inflight[r1].target = inflight[r2].target
       /\ Cardinality(ReactionRows(inflight[r1].user, inflight[r1].target)) = 1

\* C22: a react request that runs alone adds a row when the pair has none,
\* deletes the row when it has the requested kind, and otherwise changes the
\* kind of that row in place; remove-reaction deletes the row of the pair, or
\* answers 404 "no reaction" and changes nothing; rows of other pairs are left
\* as they are.
C22_ReactToggle ==
    [][\A v \in Users, pk \in 1..MaxPosts :
         (/\ resp'.op \in {"react", "remove_reaction"}
          /\ resp'.user = v /\ resp'.target = pk
          /\ \E p \in posts : p.id = pk) =>
            LET rows == ReactionRows(v, pk) IN
            /\ \A x \in reactions \cup reactions' :
                  (x.user # v \/ x.post # pk) => (x \in reactions /\ x \in reactions')
            /\ Cardinality(rows) <= 1
            /\ (resp'.op = "react" /\ resp'.status = 400) => reactions' = reactions
            /\ (resp'.op = "react" /\ resp'.status # 400) =>
                  IF rows = {}
                  THEN /\ resp'.status = 201 /\ resp'.action = "added"
                       /\ reactions' = reactions \cup {[id |-> next_reaction_id, user |-> v,
                                                          post |-> pk, reaction |-> resp'.kind]}
                  ELSE \A e \in rows :
                          IF e.reaction = resp'.kind
                          THEN /\ resp'.status = 200 /\ resp'.action = "removed"
                               /\ reactions' = reactions \ {e}
                          ELSE /\ resp'.status = 200 /\ resp'.action = "updated"
                               /\ reactions' = (reactions \ {e})
                                                  \cup {[e EXCEPT !.reaction = resp'.kind]}
            /\ resp'.op = "remove_reaction" =>
                  IF rows = {}
                  THEN /\ resp'.status = 404 /\ resp'.action = "no_reaction"
                       /\ reactions' = reactions
                  ELSE /\ resp'.status = 200
                       /\ reactions' = reactions \ rows]_vars

\* C22 witness: a react with a different kind has changed the row of the pair in
\* place, while the other user's row on the same post is there.
C22_Witness ==
    /\ resp.op = "react"
    /\ resp.action = "updated"
    /\ \A x \in ReactionRows(resp.user, resp.target) : x.reaction = resp.kind
    /\ Cardinality(ReactionRows(resp.user, resp.target)) = 1
    /\ \E x \in reactions : x.post = resp.target /\ x.user # resp.user

\* C23: a react request that has passed get_object and the serializer ends with
\* one of the outcomes added / updated / removed, also when another react of
\* the same user on the same post ran between its SELECT and its write.
C23_RaceNotSurfaced ==
    \A r \in Slots :
       (/\ inflight[r].pc = "done"
        /\ inflight[r].op = "react"
        /\ inflight[r].status \notin {400, 403, 404}) =>
          /\ inflight[r].status \in {200, 201}
          /\ inflight[r].action \in {"added", "updated", "removed"}

C25_OneLevelNesting ==
    \A c \in comments :
       c.parent_comment # 0 =>
          \A q \in comments : q.id = c.parent_comment => q.parent_comment = 0

\* C26: a comment row that appears has is_edited false; a save with a text that
\* differs from the stored one leaves is_edited true; a save with the stored
\* text leaves is_edited as it was; is_edited of a row never goes from true to
\* false.
C26_IsEditedLatch ==
    [][/\ \A d \in comments' :
            (\A c \in comments : c.id # d.id) => ~d.is_edited
       /\ \A c \in comments, d \in comments' :
            c.id = d.id =>
               /\ c.text # d.text => d.is_edited
               /\ c.text = d.text => d.is_edited = c.is_edited
               /\ c.is_edited => d.is_edited]_vars

\* C26 witness: a comment created with "a" and edited since has just been saved
\* with "a" again.
C26_Witness ==
    /\ resp.op = "update_comment"
    /\ resp.status = 200
    /\ \E c \in comments : c.id = resp.target /\ c.text = "a" /\ c.is_edited

\* C27: an evaluation of the subscription of an account with an end day that
\* answers active is made on a day before the end day.
C27_ActiveOnlyBeforeEnd ==
    (/\ resp.op \in {"is_pro_active", "check_pro_status"}
     /\ resp.user \in Users
     /\ resp.is_pro) =>
        (pro_subscription_end[resp.user] # NoTime => now < pro_subscription_end[resp.user])

MostRecentFirst(order) ==
    \A i \in DOMAIN order, j \in DOMAIN order : i < j => order[i] > order[j]

OldestFirst(order) ==
    \A i \in DOMAIN order, j \in DOMAIN order : i < j => order[i] < order[j]

ContentListings == {"list", "feed", "my_posts", "post_comments", "replies"}

C29_ApproveNeverRecreates ==
    [][\A v \in Users, u \in Users :
         (EdgesBetween(v, u) = {} /\ EdgesBetween(v, u)' # {}) =>
            (IsFollowStep(v, u) /\ inflight' = inflight)]_vars

\* C30: a change of is_private leaves the Follow table as it is (no edge
\* created, deleted or changed); the is_approved of an existing edge changes
\* in no step other than a pending_requests action, and an edge that comes
\* into being is approved exactly when its followee is public at that moment.
C30_PrivacyKeepsEdges ==
    [][/\ resp'.op = "set_privacy" => follows' = follows
       /\ \A f \in follows, g \in follows' :
            (f.id = g.id /\ f.is_approved # g.is_approved) =>
               resp'.op = "pending_requests"
       /\ \A g \in follows' :
            (\A f \in follows : f.id # g.id) =>
               g.is_approved = ~is_private[g.following]]_vars

\* C30 witness: an account has just become public while an edge to it is
\* pending; the edge is still pending.
C30_Witness ==
    /\ resp.op = "set_privacy"
    /\ ~resp.is_private
    /\ \E f \in follows : f.following = resp.user /\ ~f.is_approved
====
